---- MODULE Spec2Model ----
(***************************************************************************)
(* Model of src/milestone1.py: the validated WeatherObservation record,    *)
(* its helpers sanitize_text and to_float, and the error taxonomy.         *)
(*                                                                         *)
(* Python values are tagged records:                                       *)
(*   str    [t |-> "str",   s |-> sequence of one-character strings]       *)
(*   float  [t |-> "float", c |-> "fin" | "nan" | "inf" | "ninf", x |-> n] *)
(*   int    [t |-> "int",   n |-> mantissa, e |-> decimal exponent]        *)
(*   None   [t |-> "none"]                                                 *)
(* Finite floats carry integer values only.  An int stands for n * 10^e,   *)
(* and only e = 0 and e = BigExp are used.                                 *)
(*                                                                         *)
(* Line 162 of the source reads "def notes(self -> value: ...)", which is  *)
(* not valid Python; the notes setter is modelled with the signature       *)
(* (self, value) that its body and its decorator require.                  *)
(***************************************************************************)
EXTENDS Integers, Sequences, FiniteSets, TLC

VARIABLES obj, phase, last, assigned

vars == <<obj, phase, last, assigned>>

(***************************************************************************)
(* Bounds                                                                  *)
(***************************************************************************)
\* longest text the sanitizer specification enumerates
MaxLen == 3

(***************************************************************************)
(* Python values                                                           *)
(***************************************************************************)
None == [t |-> "none"]

Str(s) == [t |-> "str", s |-> s]

Fl(n) == [t |-> "float", c |-> "fin", x |-> n]

NaN == [t |-> "float", c |-> "nan", x |-> 0]

PosInf == [t |-> "float", c |-> "inf", x |-> 0]

NegInf == [t |-> "float", c |-> "ninf", x |-> 0]

PyInt(n) == [t |-> "int", n |-> n, e |-> 0]

\* decimal exponent of the int that does not fit a double
BigExp == 400

\* largest decimal exponent of a finite double (sys.float_info.max_10_exp)
FloatMaxExp == 308

BigInt == [t |-> "int", n |-> 1, e |-> BigExp]

\* attribute of the instance that no setter has stored yet
Unset == [t |-> "unset"]

\* constructor argument left out by the caller
Absent == [t |-> "absent"]

\* a <= b on floats; every comparison with nan is false
FLe(a, b) ==
    /\ a.c # "nan"
    /\ b.c # "nan"
    /\ \/ a.c = "ninf"
       \/ b.c = "inf"
       \/ a.c = "fin" /\ b.c = "fin" /\ a.x <= b.x

\* a < b on floats; every comparison with nan is false
FLt(a, b) ==
    /\ a.c # "nan"
    /\ b.c # "nan"
    /\ ~FLe(b, a)

(***************************************************************************)
(* Text                                                                    *)
(***************************************************************************)
Whitespace == {" ", "\t"}

Digits == <<"0", "1", "2", "3", "4", "5", "6", "7", "8", "9">>

LowerLetters == <<"a", "b", "c", "f", "i", "n", "r", "s", "u">>

UpperLetters == <<"A", "B", "C", "F", "I", "N", "R", "S", "U">>

\* str.upper on one character
UpperChar(c) ==
    IF \E i \in 1..Len(LowerLetters) : LowerLetters[i] = c
    THEN UpperLetters[CHOOSE i \in 1..Len(LowerLetters) : LowerLetters[i] = c]
    ELSE c

\* str.upper
Upper(s) == [i \in 1..Len(s) |-> UpperChar(s[i])]

RECURSIVE LStrip(_)
LStrip(s) ==
    IF s # <<>> /\ Head(s) \in Whitespace THEN LStrip(Tail(s)) ELSE s

RECURSIVE RStrip(_)
RStrip(s) ==
    IF s # <<>> /\ s[Len(s)] \in Whitespace
    THEN RStrip(SubSeq(s, 1, Len(s) - 1))
    ELSE s

\* str.strip
Strip(s) == RStrip(LStrip(s))

\* sep.join(s): the characters of s with sep between neighbours
RECURSIVE Join(_, _)
Join(sep, s) ==
    IF Len(s) <= 1 THEN s
    ELSE <<Head(s), sep>> \o Join(sep, Tail(s))

\* mutant: stops after the trim, the characters are not joined
sanitize_text_strip_only(s) == Strip(s)

sanitize_text(s) == Join(" ", Strip(Strip(s)))

(***************************************************************************)
(* Error taxonomy                                                          *)
(***************************************************************************)
ErrorKinds == {"WeatherAPIError", "LocationNotFoundError", "InvalidDataError"}

\* base class of each error kind of the taxonomy
Parent(k) ==
    CASE k = "WeatherAPIError" -> "Exception"
      [] k = "LocationNotFoundError" -> "WeatherAPIError"
      [] k = "InvalidDataError" -> "WeatherAPIError"
      [] OTHER -> "Exception"

\* issubclass(k, base) for the kinds the model can raise
IsA(k, base) ==
    \/ k = base
    \/ k \in ErrorKinds /\ (Parent(k) = base \/ Parent(Parent(k)) = base)

Ok == [ok |-> TRUE]

Raise(kind, msg) == [ok |-> FALSE, kind |-> kind, msg |-> msg]

(***************************************************************************)
(* Numeric coercion                                                        *)
(***************************************************************************)
IsDigits(s) == s # <<>> /\ \A i \in 1..Len(s) : \E d \in 1..10 : Digits[d] = s[i]

DigitVal(c) == (CHOOSE d \in 1..10 : Digits[d] = c) - 1

RECURSIVE DecVal(_)
DecVal(s) ==
    IF s = <<>> THEN 0
    ELSE 10 * DecVal(SubSeq(s, 1, Len(s) - 1)) + DigitVal(s[Len(s)])

\* float(text): surrounding whitespace is ignored
ParseFloat(s) ==
    LET t == Strip(s) IN
    CASE t = <<"n", "a", "n">> -> [ok |-> TRUE, v |-> NaN]
      [] t = <<"i", "n", "f">> -> [ok |-> TRUE, v |-> PosInf]
      [] t = <<"-", "i", "n", "f">> -> [ok |-> TRUE, v |-> NegInf]
      [] IsDigits(t) -> [ok |-> TRUE, v |-> Fl(DecVal(t))]
      [] t # <<>> /\ Head(t) = "-" /\ IsDigits(Tail(t))
            -> [ok |-> TRUE, v |-> Fl(0 - DecVal(Tail(t)))]
      [] OTHER -> [ok |-> FALSE, exc |-> "ValueError"]

\* the builtin float(value); an int is either small (e = 0) or beyond the
\* range of a double
PyFloat(value) ==
    CASE value.t = "float" -> [ok |-> TRUE, v |-> value]
      [] value.t = "int" ->
            IF value.n # 0 /\ value.e > FloatMaxExp
            THEN [ok |-> FALSE, exc |-> "OverflowError"]
            ELSE [ok |-> TRUE, v |-> Fl(value.n)]
      [] value.t = "str" -> ParseFloat(value.s)
      [] OTHER -> [ok |-> FALSE, exc |-> "TypeError"]

to_float(name, value) ==
    LET r == PyFloat(value) IN
    IF r.ok THEN r
    ELSE IF r.exc \in {"TypeError", "ValueError"}
         THEN Raise("InvalidDataError", <<name, " must be a number.">>)
         ELSE Raise(r.exc, <<"int too large to convert to float">>)

(***************************************************************************)
(* WeatherObservation                                                      *)
(***************************************************************************)
\* the order in which __init__ assigns the attributes
FieldOrder ==
    <<"city", "country", "latitude", "longitude", "temperature_c",
      "windspeed_kmh", "observation_time", "notes">>

Fields == {FieldOrder[i] : i \in 1..Len(FieldOrder)}

\* the instance before __init__ has assigned anything
NewObject == [f \in Fields |-> Unset]

Stored(o, f, v) == [obj |-> [o EXCEPT ![f] = v], res |-> Ok]

Failed(o, res) == [obj |-> o, res |-> res]

\* mutant: whitespace-only text passes the check
city_setter_no_strip(o, value) ==
    IF value.t # "str" \/ value.s = <<>>
    THEN Failed(o, Raise("InvalidDataError", <<"City must be a non-empty string">>))
    ELSE Stored(o, "city", Str(sanitize_text(value.s)))

city_setter(o, value) ==
    IF value.t # "str" \/ Strip(value.s) = <<>>
    THEN Failed(o, Raise("InvalidDataError", <<"City must be a non-empty string">>))
    ELSE Stored(o, "city", Str(sanitize_text(value.s)))

country_setter(o, value) ==
    IF value.t # "str" \/ Strip(value.s) = <<>>
    THEN Failed(o, Raise("InvalidDataError", <<"Country must be a non-empty string">>))
    ELSE Stored(o, "country", Str(Upper(sanitize_text(value.s))))

\* mutant: the coerced value is stored before its range is checked
latitude_setter_store_first(o, value) ==
    LET r == to_float("latitude", value) IN
    IF ~r.ok THEN Failed(o, r)
    ELSE IF ~(FLe(Fl(-90), r.v) /\ FLe(r.v, Fl(90)))
         THEN Failed([o EXCEPT !["latitude"] = r.v],
                     Raise("InvalidDataError", <<"Latitude must be between -90 and 90">>))
         ELSE Stored(o, "latitude", r.v)

latitude_setter(o, value) ==
    LET r == to_float("latitude", value) IN
    IF ~r.ok THEN Failed(o, r)
    ELSE IF ~(FLe(Fl(-90), r.v) /\ FLe(r.v, Fl(90)))
         THEN Failed(o, Raise("InvalidDataError", <<"Latitude must be between -90 and 90">>))
         ELSE Stored(o, "latitude", r.v)

longitude_setter(o, value) ==
    LET r == to_float("Longitude", value) IN
    IF ~r.ok THEN Failed(o, r)
    ELSE IF ~(FLe(Fl(-180), r.v) /\ FLe(r.v, Fl(180)))
         THEN Failed(o, Raise("InvalidDataError", <<"Longitude must be between -180 and 180">>))
         ELSE Stored(o, "longitude", r.v)

temperature_c_setter(o, value) ==
    LET r == to_float("Temperature_c", value) IN
    IF ~r.ok THEN Failed(o, r)
    ELSE IF ~(FLe(Fl(-100), r.v) /\ FLe(r.v, Fl(70)))
         THEN Failed(o, Raise("InvalidDataError", <<"Temperature seems unrealistic">>))
         ELSE Stored(o, "temperature_c", r.v)

windspeed_kmh_setter(o, value) ==
    LET r == to_float("windspeed_kmh", value) IN
    IF ~r.ok THEN Failed(o, r)
    ELSE IF FLt(r.v, Fl(0))
         THEN Failed(o, Raise("InvalidDataError", <<"Windspeed cannot be negative">>))
         ELSE Stored(o, "windspeed_kmh", r.v)

observation_time_setter(o, value) ==
    IF value.t # "str" \/ Strip(value.s) = <<>>
    THEN Failed(o, Raise("InvalidDataError", <<"Observation time must be a non-empty string">>))
    ELSE Stored(o, "observation_time", Str(sanitize_text(value.s)))

\* mutant: None is treated as any other non-text value
notes_setter_rejects_none(o, value) ==
    IF value.t = "str" THEN Stored(o, "notes", Str(sanitize_text(value.s)))
    ELSE Failed(o, Raise("InvalidDataError", <<"Notes must be a string or None">>))

notes_setter(o, value) ==
    IF value.t = "none" THEN Stored(o, "notes", None)
    ELSE IF value.t = "str" THEN Stored(o, "notes", Str(sanitize_text(value.s)))
    ELSE Failed(o, Raise("InvalidDataError", <<"Notes must be a string or None">>))

\* attribute assignment self.<f> = value, dispatched to the property setter
SetAttr(o, f, value) ==
    CASE f = "city" -> city_setter(o, value)
      [] f = "country" -> country_setter(o, value)
      [] f = "latitude" -> latitude_setter(o, value)
      [] f = "longitude" -> longitude_setter(o, value)
      [] f = "temperature_c" -> temperature_c_setter(o, value)
      [] f = "windspeed_kmh" -> windspeed_kmh_setter(o, value)
      [] f = "observation_time" -> observation_time_setter(o, value)
      [] f = "notes" -> notes_setter(o, value)

\* the property getters
GetAttr(o, f) == o[f]

\* mutant: the mapping has no "notes" key
to_dict_without_notes(o) == [k \in Fields \ {"notes"} |-> GetAttr(o, k)]

to_dict(o) == [k \in Fields |-> GetAttr(o, k)]

\* the assignments of __init__ from the i-th on; trace lists the attributes
\* whose setter has been entered
RECURSIVE InitFrom(_, _, _, _)
InitFrom(i, o, args, trace) ==
    IF i > Len(FieldOrder) THEN [obj |-> o, res |-> Ok, trace |-> trace]
    ELSE LET f == FieldOrder[i]
             r == SetAttr(o, f, args[f])
         IN IF r.res.ok
            THEN InitFrom(i + 1, r.obj, args, Append(trace, f))
            ELSE [obj |-> r.obj, res |-> r.res, trace |-> Append(trace, f)]

\* mutant: a failing assignment is skipped and the next one is made
RECURSIVE InitFromLenient(_, _, _, _)
InitFromLenient(i, o, args, trace) ==
    IF i > Len(FieldOrder) THEN [obj |-> o, res |-> Ok, trace |-> trace]
    ELSE LET f == FieldOrder[i]
             r == SetAttr(o, f, args[f])
         IN InitFromLenient(i + 1, r.obj, args, Append(trace, f))

\* mutant of __init__: no assignment aborts the construction
init_lenient(args) ==
    InitFromLenient(1, NewObject,
                    [args EXCEPT !["notes"] = IF @ = Absent THEN None ELSE @], <<>>)

\* WeatherObservation.__init__; an absent notes argument takes the default
init(args) ==
    InitFrom(1, NewObject,
             [args EXCEPT !["notes"] = IF @ = Absent THEN None ELSE @], <<>>)

(***************************************************************************)
(* Inputs                                                                  *)
(***************************************************************************)
Paris == <<"P", "a", "r", "i", "s">>

\* "2024-05-01T12:00:00Z"
Timestamp ==
    <<"2", "0", "2", "4", "-", "0", "5", "-", "0", "1", "T",
      "1", "2", ":", "0", "0", ":", "0", "0", "Z">>

\* values every text setter is tried with: empty, whitespace-only, padded
\* text, a number, None
TextCommon ==
    {Str(<<>>), Str(<<" ", "\t">>), Str(<<" ", "a", "\t">>), PyInt(5), None}

CityInputs == TextCommon \cup {Str(Paris)}

CountryInputs == TextCommon \cup {Str(<<"u", "s">>), Str(<<"f", "r">>)}

ObservationTimeInputs == TextCommon \cup {Str(Timestamp)}

NotesInputs == TextCommon \cup {Fl(1)}

\* values every numeric setter is tried with: nan, the infinities, an int
\* beyond the range of a double, non-numeric text, None
NumCommon ==
    {NaN, PosInf, NegInf, BigInt, Str(<<"a", "b", "c">>), None}

LatitudeInputs == NumCommon \cup {Fl(-91), Fl(-90), Fl(90), Fl(91)}

LongitudeInputs == NumCommon \cup {Fl(-181), Fl(-180), Fl(180), Fl(181)}

TemperatureInputs == NumCommon \cup {Fl(-101), Fl(-100), Fl(70), Fl(71)}

WindspeedInputs ==
    NumCommon \cup {Fl(-1), Fl(0), Str(<<" ", "1", "2">>), Str(<<"n", "a", "n">>)}

SetterInputs(f) ==
    CASE f = "city" -> CityInputs
      [] f = "country" -> CountryInputs
      [] f = "latitude" -> LatitudeInputs
      [] f = "longitude" -> LongitudeInputs
      [] f = "temperature_c" -> TemperatureInputs
      [] f = "windspeed_kmh" -> WindspeedInputs
      [] f = "observation_time" -> ObservationTimeInputs
      [] f = "notes" -> NotesInputs

\* the arguments __init__ is called with
CtorInputs(f) ==
    CASE f = "city" -> {Str(Paris), Str(<<" ", "\t">>)}
      [] f = "country" -> {Str(<<"f", "r">>), Str(<<"u", "s">>), PyInt(5)}
      [] f = "latitude" -> {Fl(90), Fl(91), BigInt}
      [] f = "longitude" -> {Fl(-180), Str(<<"a", "b", "c">>)}
      [] f = "temperature_c" -> {Fl(70), Fl(71)}
      [] f = "windspeed_kmh" -> {Fl(0), Fl(-1), NaN}
      [] f = "observation_time" -> {Str(Timestamp), None}
      [] f = "notes" -> {Absent, None, Str(<<" ", "a", "\t">>), PyInt(5)}

CtorArgs ==
    [city : CtorInputs("city"), country : CtorInputs("country"),
     latitude : CtorInputs("latitude"), longitude : CtorInputs("longitude"),
     temperature_c : CtorInputs("temperature_c"),
     windspeed_kmh : CtorInputs("windspeed_kmh"),
     observation_time : CtorInputs("observation_time"),
     notes : CtorInputs("notes")]

(***************************************************************************)
(* State machine: one instance and the operations of its caller            *)
(***************************************************************************)
\* phase: "none" before the constructor call, "live" once an instance has
\* been returned to the caller, "failed" when the constructor raised.
\* last: the operation just performed, its arguments and its outcome.
\* assigned: per attribute, the value of the last assignment that succeeded
\* (history of the setter calls; the program does not keep it).
Init ==
    /\ obj = NewObject
    /\ phase = "none"
    /\ last = [op |-> "none"]
    /\ assigned = NewObject

Construct ==
    /\ phase = "none"
    /\ \E args \in CtorArgs :
          LET r == init(args) IN
          /\ obj' = r.obj
          /\ phase' = IF r.res.ok THEN "live" ELSE "failed"
          /\ last' = [op |-> "init", args |-> args, res |-> r.res, trace |-> r.trace]
          /\ assigned' = [f \in Fields |->
                            IF r.obj[f] = Unset THEN Unset
                            ELSE IF args[f] = Absent THEN None ELSE args[f]]

SetOp(f, r, value) ==
    /\ obj' = r.obj
    /\ last' = [op |-> "set", field |-> f, arg |-> value, res |-> r.res]
    /\ assigned' = IF r.res.ok THEN [assigned EXCEPT ![f] = value] ELSE assigned
    /\ UNCHANGED phase

SetCity ==
    /\ phase = "live"
    /\ \E value \in CityInputs : SetOp("city", city_setter(obj, value), value)

SetCountry ==
    /\ phase = "live"
    /\ \E value \in CountryInputs : SetOp("country", country_setter(obj, value), value)

SetLatitude ==
    /\ phase = "live"
    /\ \E value \in LatitudeInputs : SetOp("latitude", latitude_setter(obj, value), value)

SetLongitude ==
    /\ phase = "live"
    /\ \E value \in LongitudeInputs : SetOp("longitude", longitude_setter(obj, value), value)

SetTemperature ==
    /\ phase = "live"
    /\ \E value \in TemperatureInputs :
          SetOp("temperature_c", temperature_c_setter(obj, value), value)

SetWindspeed ==
    /\ phase = "live"
    /\ \E value \in WindspeedInputs :
          SetOp("windspeed_kmh", windspeed_kmh_setter(obj, value), value)

SetObservationTime ==
    /\ phase = "live"
    /\ \E value \in ObservationTimeInputs :
          SetOp("observation_time", observation_time_setter(obj, value), value)

SetNotes ==
    /\ phase = "live"
    /\ \E value \in NotesInputs : SetOp("notes", notes_setter(obj, value), value)

\* a property read by the caller
Get ==
    /\ phase = "live"
    /\ \E f \in Fields :
          last' = [op |-> "get", field |-> f, res |-> GetAttr(obj, f)]
    /\ UNCHANGED <<obj, phase, assigned>>

ToDict ==
    /\ phase = "live"
    /\ last' = [op |-> "to_dict", res |-> to_dict(obj)]
    /\ UNCHANGED <<obj, phase, assigned>>

Next ==
    \/ Construct
    \/ SetCity
    \/ SetCountry
    \/ SetLatitude
    \/ SetLongitude
    \/ SetTemperature
    \/ SetWindspeed
    \/ SetObservationTime
    \/ SetNotes
    \/ Get
    \/ ToDict

Spec == Init /\ [][Next]_vars

(***************************************************************************)
(* The sanitizer on its own: a text is chosen, then sanitized              *)
(***************************************************************************)
SanChars == {"a", "B", " ", "\t"}

Texts == UNION {[1..n -> SanChars] : n \in 0..MaxLen}

InitSan ==
    /\ obj = NewObject
    /\ phase = "none"
    /\ assigned = NewObject
    /\ \E s \in Texts : last = [op |-> "text", arg |-> s]

Sanitize ==
    /\ last.op = "text"
    /\ last' = [op |-> "sanitize_text", arg |-> last.arg, res |-> sanitize_text(last.arg)]
    /\ UNCHANGED <<obj, phase, assigned>>

NextSan == Sanitize

SpecSan == InitSan /\ [][NextSan]_vars

TypeOK == phase \in {"none", "live", "failed"}

(***************************************************************************)
(* Vocabulary of the properties                                            *)
(***************************************************************************)
TextFields == {"city", "country", "observation_time"}

NumFields == {"latitude", "longitude", "temperature_c", "windspeed_kmh"}

IsText(v) == v.t = "str"

HasNoWhitespace(s) == \A i \in 1..Len(s) : s[i] \notin Whitespace

\* text with at least one character that is not whitespace
NonBlankText(v) == IsText(v) /\ \E i \in 1..Len(v.s) : v.s[i] \notin Whitespace

\* the stored float v lies in [lo, hi]
InRange(v, lo, hi) == v.t = "float" /\ FLe(Fl(lo), v) /\ FLe(v, Fl(hi))

\* the argument a constructor call passes for f once defaults are applied
CtorArg(args, f) == IF args[f] = Absent THEN None ELSE args[f]

SetDone(f) == last.op = "set" /\ last.field = f

\* C1: every field of a live instance satisfies its constraint.
C1_FieldsValid ==
    phase = "live" =>
        /\ \A f \in TextFields : IsText(obj[f]) /\ obj[f].s # <<>>
        /\ Upper(obj["country"].s) = obj["country"].s
        /\ InRange(obj["latitude"], -90, 90)
        /\ InRange(obj["longitude"], -180, 180)
        /\ InRange(obj["temperature_c"], -100, 70)
        /\ obj["windspeed_kmh"].t = "float" /\ FLe(Fl(0), obj["windspeed_kmh"])
        /\ (obj["notes"] = None \/ IsText(obj["notes"]))

\* the setter of f accepts value (no setter's verdict depends on the instance)
Accepts(f, value) == SetAttr(NewObject, f, value).res.ok

\* position in FieldOrder of the first argument that its setter rejects,
\* Len(FieldOrder) + 1 when there is none
FirstInvalid(args) ==
    IF \A i \in 1..Len(FieldOrder) : Accepts(FieldOrder[i], CtorArg(args, FieldOrder[i]))
    THEN Len(FieldOrder) + 1
    ELSE CHOOSE i \in 1..Len(FieldOrder) :
            /\ ~Accepts(FieldOrder[i], CtorArg(args, FieldOrder[i]))
            /\ \A j \in 1..(i - 1) : Accepts(FieldOrder[j], CtorArg(args, FieldOrder[j]))

\* C2: construction runs the setters in the order city, country, latitude,
\* longitude, temperature_c, windspeed_kmh, observation_time, notes; with an
\* invalid argument it fails with the error of the first invalid field, no
\* later field is validated or stored, and no instance reaches the caller.
C2_ConstructionOrder ==
    /\ phase = "failed" => last.op = "init"
    /\ last.op = "init" =>
           LET k == FirstInvalid(last.args)
               order == <<"city", "country", "latitude", "longitude", "temperature_c",
                          "windspeed_kmh", "observation_time", "notes">>
           IN IF k > 8
              THEN last.trace = order /\ last.res.ok /\ phase = "live"
              ELSE /\ last.trace = SubSeq(order, 1, k)
                   /\ last.res = SetAttr(NewObject, order[k], CtorArg(last.args, order[k])).res
                   /\ ~last.res.ok
                   /\ \A j \in k..8 : obj[order[j]] = Unset
                   /\ \A j \in 1..(k - 1) : obj[order[j]] # Unset
                   /\ phase = "failed"

\* a construction with two invalid arguments has failed at the first of them
C2_Witness ==
    /\ last.op = "init"
    /\ phase = "failed"
    /\ Len(last.trace) = 3
    /\ ~Accepts("longitude", last.args["longitude"])
    /\ ~Accepts("notes", last.args["notes"])

\* every argument of a constructor call meets the constraint of its field
AllValid(args) ==
    /\ \A f \in TextFields : NonBlankText(args[f])
    /\ InRange(args["latitude"], -90, 90)
    /\ InRange(args["longitude"], -180, 180)
    /\ InRange(args["temperature_c"], -100, 70)
    /\ args["windspeed_kmh"].t = "float" /\ FLe(Fl(0), args["windspeed_kmh"])
    /\ (args["notes"] \in {Absent, None} \/ IsText(args["notes"]))

\* the value a field holds after the assignment of v succeeded
Converted(f, v) ==
    CASE f = "country" -> Str(Upper(sanitize_text(v.s)))
      [] f \in {"city", "observation_time"} -> Str(sanitize_text(v.s))
      [] f = "notes" -> IF v = None THEN None ELSE Str(sanitize_text(v.s))
      [] OTHER -> PyFloat(v).v

\* C3: a construction from valid arguments succeeds, and to_dict() returns a
\* mapping with exactly the eight field names as keys, each mapped to the
\* sanitized text or coerced number of the last successful assignment.
C3_ToDictRoundTrip ==
    /\ (last.op = "init" /\ AllValid(last.args)) => (last.res.ok /\ phase = "live")
    /\ last.op = "to_dict" =>
          /\ DOMAIN last.res = {"city", "country", "latitude", "longitude",
                                "temperature_c", "windspeed_kmh",
                                "observation_time", "notes"}
          /\ \A k \in DOMAIN last.res :
                last.res[k] = obj[k] /\ last.res[k] = Converted(k, assigned[k])

\* to_dict() on an instance whose country and windspeed were reassigned after
\* the construction
C3_Witness ==
    /\ last.op = "to_dict"
    /\ assigned["country"] = Str(<<" ", "a", "\t">>)
    /\ assigned["windspeed_kmh"] = Str(<<" ", "1", "2">>)
    /\ last.res["windspeed_kmh"] = Fl(12)

\* C4: text without whitespace is stored as given (country upper-cased), at
\* construction and at a later set.
C4_TextStoredAsGiven ==
    /\ last.op = "set" /\ last.res.ok /\ last.field \in TextFields
          /\ IsText(last.arg) /\ HasNoWhitespace(last.arg.s)
       => obj[last.field] =
             IF last.field = "country" THEN Str(Upper(last.arg.s)) ELSE last.arg
    /\ last.op = "init" /\ last.res.ok =>
          \A f \in TextFields :
             HasNoWhitespace(last.args[f].s) =>
                obj[f] = IF f = "country" THEN Str(Upper(last.args[f].s)) ELSE last.args[f]
    /\ last.op = "to_dict" =>
          \A f \in TextFields :
             IsText(assigned[f]) /\ HasNoWhitespace(assigned[f].s) =>
                last.res[f] =
                   IF f = "country" THEN Str(Upper(assigned[f].s)) ELSE assigned[f]

\* v is a number: a float that is not nan, or an int
IsNumber(v) == (v.t = "float" /\ v.c # "nan") \/ v.t = "int"

\* lo <= v for a number v and an integer lo
NumGe(v, lo) ==
    IF v.t = "int" THEN (IF v.e = 0 THEN v.n >= lo ELSE v.n > 0)
    ELSE FLe(Fl(lo), v)

\* v <= hi for a number v and an integer hi
NumLe(v, hi) ==
    IF v.t = "int" THEN (IF v.e = 0 THEN v.n <= hi ELSE v.n < 0)
    ELSE FLe(v, Fl(hi))

\* the range the claim gives for the numeric field f
WithinClaimedRange(f, v) ==
    CASE f = "latitude" -> NumGe(v, -90) /\ NumLe(v, 90)
      [] f = "longitude" -> NumGe(v, -180) /\ NumLe(v, 180)
      [] f = "temperature_c" -> NumGe(v, -100) /\ NumLe(v, 70)
      [] f = "windspeed_kmh" -> NumGe(v, 0)

\* C5: for a numeric value v, setting latitude, longitude, temperature_c or
\* windspeed_kmh succeeds iff v is in [-90, 90], [-180, 180], [-100, 70] or
\* v >= 0 respectively, and a value outside fails with InvalidDataError.
C5_RangeIff ==
    last.op = "set" /\ last.field \in NumFields /\ last.arg.t \in {"float", "int"} =>
        /\ last.res.ok <=> (IsNumber(last.arg) /\ WithinClaimedRange(last.field, last.arg))
        /\ ~last.res.ok => last.res.kind = "InvalidDataError"

\* C6: setting city, country or observation_time fails with InvalidDataError
\* when the value is not text, is empty or is whitespace only, and succeeds
\* for every text that is non-empty after trimming; at construction as well.
C6_TextRequired ==
    /\ last.op = "set" /\ last.field \in TextFields =>
          /\ last.res.ok <=> NonBlankText(last.arg)
          /\ ~last.res.ok => last.res.kind = "InvalidDataError" /\ obj[last.field] # last.arg
    /\ last.op = "init" =>
          \A i \in 1..Len(last.trace) :
             last.trace[i] \in TextFields =>
                /\ (i < Len(last.trace) \/ last.res.ok) <=> NonBlankText(last.args[last.trace[i]])
                /\ (i = Len(last.trace) /\ ~last.res.ok) => last.res.kind = "InvalidDataError"

\* a whitespace-only city has been refused on a live instance
C6_Witness ==
    /\ SetDone("city")
    /\ last.arg = Str(<<" ", "\t">>)
    /\ ~last.res.ok

NamesField(msg, f) ==
    /\ Len(msg) = 2
    /\ msg[1] = CASE f = "latitude" -> "latitude"
                  [] f = "longitude" -> "Longitude"
                  [] f = "temperature_c" -> "Temperature_c"
                  [] f = "windspeed_kmh" -> "windspeed_kmh"

\* the outcome res of assigning value to f is within the contract
FailsWithinTaxonomy(f, value, res) ==
    ~res.ok =>
       /\ res.kind = "InvalidDataError"
       /\ IsA(res.kind, "WeatherAPIError")
       /\ f \in NumFields /\ ~PyFloat(value).ok => NamesField(res.msg, f)

\* C8: every failing construction or set fails with InvalidDataError, a
\* WeatherAPIError, never with LocationNotFoundError or an error outside the
\* taxonomy; for a value that is not convertible to a number the message
\* names the field.
C8_OnlyInvalidDataError ==
    /\ last.op = "set" => FailsWithinTaxonomy(last.field, last.arg, last.res)
    /\ last.op = "init" =>
          FailsWithinTaxonomy(last.trace[Len(last.trace)],
                              CtorArg(last.args, last.trace[Len(last.trace)]), last.res)

\* C9: a set changes at most its target field, a failed set changes no
\* field, and get and to_dict() change no field.
C9_Frame ==
    [][phase = "live" =>
          /\ last'.op = "set" =>
                /\ \A f \in Fields \ {last'.field} : obj'[f] = obj[f]
                /\ ~last'.res.ok => obj' = obj
          /\ last'.op \in {"get", "to_dict"} => obj' = obj
          /\ last'.op = "get" => last'.res = obj[last'.field]]_vars

\* an out-of-range latitude has been refused on a live instance
C9_Witness ==
    /\ SetDone("latitude")
    /\ last.arg = Fl(91)
    /\ ~last.res.ok
    /\ obj["latitude"] = Fl(-90)

\* C10: sanitize_text trims the text and returns its characters joined by
\* single spaces: n >= 1 characters give 2n - 1, blank text gives the empty
\* text.
C10_CharacterJoin ==
    last.op = "sanitize_text" =>
        LET s == last.arg
            r == last.res
            inner == {i \in 1..Len(s) : s[i] \notin Whitespace}
        IN IF inner = {} THEN r = <<>>
           ELSE LET lo == CHOOSE i \in inner : \A j \in inner : i <= j
                    hi == CHOOSE i \in inner : \A j \in inner : j <= i
                    n == hi - lo + 1
                IN /\ Len(r) = 2 * n - 1
                   /\ \A k \in 1..n : r[2 * k - 1] = s[lo + k - 1]
                   /\ \A k \in 1..(n - 1) : r[2 * k] = " "

\* a padded text of two characters has been sanitized to three
C10_Witness ==
    /\ last.op = "sanitize_text"
    /\ last.arg = <<" ", "a", "B">>
    /\ last.res = <<"a", " ", "B">>

====
